---- MODULE Spec2Model ----
(***************************************************************************)
(* Model of Source/Scene/parseBatchTable.js: the transcoding of a 3D Tiles *)
(* 1.0 batch table into EXT_feature_metadata structures.                   *)
(*                                                                         *)
(* JavaScript values are tagged tuples, the tag first, so that values of   *)
(* different JavaScript types are always comparable:                       *)
(*   <<"undefined">>  <<"null">>  <<"NaN">>                               *)
(*   <<"number", n>>  <<"string", s>>  <<"array", elements>>              *)
(*   <<"object", own, proto>>  an object held by value: own is the         *)
(*        sequence of its own <<key, value>> entries in enumeration order, *)
(*        proto the enumerable entries it inherits                         *)
(*   <<"ref", r>>     a reference to the mutable object heap[r]            *)
(***************************************************************************)
EXTENDS Integers, Sequences, FiniteSets, TLC

VARIABLES
    pc,                 \* position of the call inside parseBatchTable
    count,              \* options.count
    batchTable,         \* options.batchTable
    binaryBody,         \* options.binaryBody
    heap,               \* the objects that are reached through references
    partitionResults,   \* line 38
    jsonMetadataTable,  \* line 40
    hierarchy,          \* line 45
    binaryResults,      \* line 47
    result,             \* the returned FeatureMetadata, line 63
    error,              \* the error the call ended with, if any
    warnings,           \* the calls of parseBatchTable._deprecationWarning
    log                 \* the pipeline steps performed so far, in order

vars == <<pc, count, batchTable, binaryBody, heap, partitionResults,
          jsonMetadataTable, hierarchy, binaryResults, result, error,
          warnings, log>>

----------------------------------------------------------------------------
(* Bounds of the model.                                                    *)

MaxCount == 1
MaxBodyOffset == 4
MaxPropertyOffset == 8

\* The property identifiers batch tables are built from: an ordinary name,
\* an integer-like name (enumerated first by JavaScript) and __proto__, which
\* JSON.parse creates as an own property.
PropertyIds == {"height", "0", "__proto__"}

----------------------------------------------------------------------------
(* JavaScript values.                                                      *)

Undefined == <<"undefined">>
Null == <<"null">>
NaN == <<"NaN">>
Num(n) == <<"number", n>>
Str(s) == <<"string", s>>
Arr(elements) == <<"array", elements>>
Obj(own, proto) == <<"object", own, proto>>
Ref(r) == <<"ref", r>>

Tag(v) == v[1]

\* Core/defined.js as used on lines 85, 90, 252, 257
defined(value) == value # Undefined /\ value # Null

\* the typeof operator
TypeOf(v) ==
    CASE Tag(v) = "undefined" -> "undefined"
      [] Tag(v) \in {"number", "NaN"} -> "number"
      [] Tag(v) = "string" -> "string"
      [] OTHER -> "object"

\* Array.isArray, line 108
IsArray(v) == Tag(v) = "array"

\* The characters of the strings the model uses, for String.prototype.charAt.
Chars(s) ==
    CASE s = "SCALAR" -> <<"S", "C", "A", "L", "A", "R">>
      [] s = "VEC2" -> <<"V", "E", "C", "2">>
      [] s = "VEC3" -> <<"V", "E", "C", "3">>
      [] s = "VEC4" -> <<"V", "E", "C", "4">>
      [] OTHER -> <<>>

\* propertyType.charAt(index), line 203: the empty string past the end
charAt(str, index) ==
    IF index + 1 \in 1..Len(Chars(str[2])) THEN Chars(str[2])[index + 1] ELSE ""

\* parseInt of a string of at most one character, line 203
parseInt(s) ==
    CASE s = "0" -> Num(0) [] s = "1" -> Num(1) [] s = "2" -> Num(2)
      [] s = "3" -> Num(3) [] s = "4" -> Num(4) [] s = "5" -> Num(5)
      [] s = "6" -> Num(6) [] s = "7" -> Num(7) [] s = "8" -> Num(8)
      [] s = "9" -> Num(9)
      [] OTHER -> NaN

\* a + b on numbers, line 154: NaN when an operand is undefined or NaN
Plus(a, b) ==
    IF Tag(a) = "number" /\ Tag(b) = "number" THEN Num(a[2] + b[2]) ELSE NaN

----------------------------------------------------------------------------
(* Objects: own entries in enumeration order, inherited enumerable ones.   *)

Own(o) == o[2]
Proto(o) == o[3]

KeysOf(entries) == [i \in 1..Len(entries) |-> entries[i][1]]
KeySet(entries) == {entries[i][1] : i \in 1..Len(entries)}

Lookup(entries, key) ==
    LET hits == {i \in 1..Len(entries) : entries[i][1] = key}
    IN IF hits = {} THEN Undefined ELSE entries[CHOOSE i \in hits : TRUE][2]

\* obj.hasOwnProperty(key), lines 98 and 140
hasOwnProperty(o, key) == key \in KeySet(Own(o))

\* obj[key] as a read: own entries first, then the prototype chain
Get(o, key) ==
    IF hasOwnProperty(o, key) THEN Lookup(Own(o), key) ELSE Lookup(Proto(o), key)

\* the keys a for-in loop visits: own ones, then inherited ones not shadowed
ForInKeys(o) ==
    KeysOf(Own(o)) \o
    SelectSeq(KeysOf(Proto(o)), LAMBDA k : k \notin KeySet(Own(o)))

\* integer-like keys are enumerated before the others, in ascending order
IsIndexKey(key) == key \in {"0", "1", "2", "3"}
IndexOf(key) ==
    CASE key = "0" -> 0 [] key = "1" -> 1 [] key = "2" -> 2 [] key = "3" -> 3

Before(k1, k2) ==
    /\ IsIndexKey(k1)
    /\ (IsIndexKey(k2) => IndexOf(k1) < IndexOf(k2))

\* the enumerable entries of a value that becomes a prototype
EnumerableEntries(v) ==
    CASE Tag(v) = "object" -> Own(v) \o Proto(v)
      [] Tag(v) = "array" ->
            [i \in 1..Len(v[2]) |->
                <<CASE i = 1 -> "0" [] i = 2 -> "1" [] i = 3 -> "2" [] OTHER -> "3",
                  v[2][i]>>]
      [] OTHER -> <<>>

\* CreateDataProperty, by which JSON.parse and object literals add an own
\* entry: an existing own entry is overwritten in place, a new one is added
\* in enumeration order.
DefineOwn(o, key, value) ==
    IF hasOwnProperty(o, key)
    THEN Obj([i \in 1..Len(Own(o)) |->
                 IF Own(o)[i][1] = key THEN <<key, value>> ELSE Own(o)[i]],
             Proto(o))
    ELSE LET before == SelectSeq(Own(o), LAMBDA e : ~Before(key, e[1]))
             after == SelectSeq(Own(o), LAMBDA e : Before(key, e[1]))
         IN Obj(before \o <<<<key, value>>>> \o after, Proto(o))

\* obj[key] = value on an object made by {} (lines 91, 109, 111, 146, 150):
\* the key __proto__ runs the setter inherited from Object.prototype, which
\* replaces the prototype when the value is an object or null and adds no
\* own entry; every other key defines or overwrites an own entry.
Put(o, key, value) ==
    IF key = "__proto__"
    THEN IF TypeOf(value) = "object"
         THEN Obj(Own(o), EnumerableEntries(value))
         ELSE o
    ELSE DefineOwn(o, key, value)

\* the object literal {}
EmptyObject == Obj(<<>>, <<>>)

----------------------------------------------------------------------------
(* The type mapper.                                                        *)

\* transcodeComponentType with the case UNSIGNED_INT falling into INT's
transcodeComponentTypeFallthrough(componentType) ==
    CASE componentType = Str("BYTE") -> Str("INT8")
      [] componentType = Str("UNSIGNED_BYTE") -> Str("UINT8")
      [] componentType = Str("SHORT") -> Str("INT16")
      [] componentType = Str("UNSIGNED_SHORT") -> Str("UINT16")
      [] componentType = Str("INT") -> Str("INT32")
      [] componentType = Str("UNSIGNED_INT") -> Str("INT32")
      [] componentType = Str("FLOAT") -> Str("FLOAT32")
      [] componentType = Str("DOUBLE") -> Str("FLOAT64")
      [] OTHER -> Undefined

\* lines 221-240
transcodeComponentType(componentType) ==
    CASE componentType = Str("BYTE") -> Str("INT8")
      [] componentType = Str("UNSIGNED_BYTE") -> Str("UINT8")
      [] componentType = Str("SHORT") -> Str("INT16")
      [] componentType = Str("UNSIGNED_SHORT") -> Str("UINT16")
      [] componentType = Str("INT") -> Str("INT32")
      [] componentType = Str("UNSIGNED_INT") -> Str("UINT32")
      [] componentType = Str("FLOAT") -> Str("FLOAT32")
      [] componentType = Str("DOUBLE") -> Str("FLOAT64")
      [] OTHER -> Undefined

\* transcodePropertyType reading the character before the digit
transcodePropertyTypeOffByOne(property) ==
    LET componentType == transcodeComponentType(Get(property, "componentType"))
        propertyType == Get(property, "type")
    IN IF propertyType = Str("SCALAR")
       THEN Obj(<< <<"type", componentType>> >>, <<>>)
       ELSE Obj(<< <<"type", Str("ARRAY")>>,
                   <<"componentType", componentType>>,
                   <<"componentCount", parseInt(charAt(propertyType, 2))>> >>,
                <<>>)

\* lines 192-210
transcodePropertyType(property) ==
    LET componentType == transcodeComponentType(Get(property, "componentType"))
        propertyType == Get(property, "type")
    IN IF propertyType = Str("SCALAR")
       THEN Obj(<< <<"type", componentType>> >>, <<>>)
       ELSE Obj(<< <<"type", Str("ARRAY")>>,
                   <<"componentType", componentType>>,
                   <<"componentCount", parseInt(charAt(propertyType, 3))>> >>,
                <<>>)

----------------------------------------------------------------------------
(* The collaborators that are not part of parseBatchTable.js.              *)

\* Check.typeOf.number and Check.typeOf.object, lines 28-30: TRUE when the
\* check passes, FALSE when it throws
CheckTypeOfNumber(test) == TypeOf(test) = "number"
CheckTypeOfObject(test) == TypeOf(test) = "object"

\* getBinaryAccessor(property).createArrayBufferView(buffer, byteOffset,
\* length), lines 144 and 152: the view records what it was requested over
createArrayBufferView(property, buffer, byteOffset, length) ==
    <<"view", buffer, byteOffset, length>>

\* new JsonMetadataTable({count, properties}), line 40
NewJsonMetadataTable(featureCount, properties) ==
    <<"JsonMetadataTable", featureCount, properties>>

\* new BatchTableHierarchy({extension, binaryBody}), line 261
NewBatchTableHierarchy(extension, body) ==
    <<"BatchTableHierarchy", extension, body>>

\* new MetadataSchema(schemaJson), line 168
NewMetadataSchema(schemaJson) == <<"MetadataSchema", schemaJson>>

----------------------------------------------------------------------------
(* partitionProperties, lines 80-121.                                      *)

HierarchyExtension == "3DTILES_batch_table_hierarchy"

\* the body of the loop of lines 96-113 for one key
partitionStep(bt, acc, propertyId) ==
    IF \/ ~hasOwnProperty(bt, propertyId)
       \/ propertyId = "HIERARCHY"
       \/ propertyId = "extensions"
       \/ propertyId = "extras"
    THEN acc
    ELSE LET property == Get(bt, propertyId)
         IN IF IsArray(property)
            THEN [acc EXCEPT !.jsonProperties = Put(@, propertyId, property)]
            ELSE [acc EXCEPT !.binaryProperties = Put(@, propertyId, property)]

RECURSIVE partitionLoop(_, _, _)
partitionLoop(bt, keys, acc) ==
    IF keys = <<>> THEN acc
    ELSE partitionLoop(bt, Tail(keys), partitionStep(bt, acc, Head(keys)))

\* foldLegacyHierarchy without the call of the warning hook
foldLegacyHierarchySilent(legacyHierarchy, extensions, h) ==
    IF defined(legacyHierarchy)
    THEN IF defined(extensions)
         THEN [extensions |-> extensions,
               heap |-> [h EXCEPT ![extensions[2]] =
                            Put(@, HierarchyExtension, legacyHierarchy)],
               warned |-> 0]
         ELSE [extensions |-> Ref(Len(h) + 1),
               heap |-> Append(h, Put(EmptyObject, HierarchyExtension,
                                      legacyHierarchy)),
               warned |-> 0]
    ELSE [extensions |-> extensions, heap |-> h, warned |-> 0]

\* lines 85-92: the extensions value after the legacy field is folded in,
\* the heap after the assignment of line 91, and the warnings emitted
foldLegacyHierarchy(legacyHierarchy, extensions, h) ==
    IF defined(legacyHierarchy)
    THEN IF defined(extensions)
         THEN [extensions |-> extensions,
               heap |-> [h EXCEPT ![extensions[2]] =
                            Put(@, HierarchyExtension, legacyHierarchy)],
               warned |-> 1]
         ELSE [extensions |-> Ref(Len(h) + 1),
               heap |-> Append(h, Put(EmptyObject, HierarchyExtension,
                                      legacyHierarchy)),
               warned |-> 1]
    ELSE [extensions |-> extensions, heap |-> h, warned |-> 0]

\* lines 80-121: the returned object, with the heap and the warnings
partitionProperties(bt, h) ==
    LET folded == foldLegacyHierarchy(Get(bt, "HIERARCHY"),
                                      Get(bt, "extensions"), h)
        parts == partitionLoop(bt, ForInKeys(bt),
                               [jsonProperties |-> EmptyObject,
                                binaryProperties |-> EmptyObject])
    IN [results |-> [binaryProperties |-> parts.binaryProperties,
                     jsonProperties |-> parts.jsonProperties,
                     extras |-> Get(bt, "extras"),
                     extensions |-> folded.extensions],
        heap |-> folded.heap,
        warned |-> folded.warned]

----------------------------------------------------------------------------
(* transcodeBinaryProperties, lines 134-182.                               *)

\* line 153-154: the buffer and the start byte the view is requested over
viewBuffer(body) == Get(body, "buffer")
viewByteOffsetRelative(body, property) == Get(property, "byteOffset")
viewByteOffset(body, property) ==
    Plus(Get(body, "byteOffset"), Get(property, "byteOffset"))

\* transcodeStep with the slot counter incremented before it is used
transcodeStepEarlyIncrement(featureCount, binaryProperties, body, acc, propertyId) ==
    IF ~hasOwnProperty(binaryProperties, propertyId)
    THEN acc
    ELSE LET property == Get(binaryProperties, propertyId)
             slot == acc.bufferViewCount + 1
         IN [featureTableProperties |->
                 Put(acc.featureTableProperties, propertyId,
                     Obj(<< <<"bufferView", Num(slot)>> >>, <<>>)),
             classProperties |->
                 Put(acc.classProperties, propertyId,
                     transcodePropertyType(property)),
             bufferViewsU8 |->
                 (slot :>
                     createArrayBufferView(property, viewBuffer(body),
                                           viewByteOffset(body, property),
                                           featureCount))
                 @@ acc.bufferViewsU8,
             bufferViewCount |-> slot]

\* the body of the loop of lines 139-159 for one key
transcodeStep(featureCount, binaryProperties, body, acc, propertyId) ==
    IF ~hasOwnProperty(binaryProperties, propertyId)
    THEN acc
    ELSE LET property == Get(binaryProperties, propertyId)
         IN [featureTableProperties |->
                 Put(acc.featureTableProperties, propertyId,
                     Obj(<< <<"bufferView", Num(acc.bufferViewCount)>> >>, <<>>)),
             classProperties |->
                 Put(acc.classProperties, propertyId,
                     transcodePropertyType(property)),
             bufferViewsU8 |->
                 (acc.bufferViewCount :>
                     createArrayBufferView(property, viewBuffer(body),
                                           viewByteOffset(body, property),
                                           featureCount))
                 @@ acc.bufferViewsU8,
             bufferViewCount |-> acc.bufferViewCount + 1]

RECURSIVE transcodeLoop(_, _, _, _, _)
transcodeLoop(featureCount, binaryProperties, body, keys, acc) ==
    IF keys = <<>> THEN acc
    ELSE transcodeLoop(featureCount, binaryProperties, body, Tail(keys),
            transcodeStep(featureCount, binaryProperties, body, acc, Head(keys)))

\* line 153 reads binaryBody.buffer: a TypeError when binaryBody is null or
\* undefined and the loop body is reached
transcodeThrows(binaryProperties, body) ==
    ~defined(body) /\ Own(binaryProperties) # <<>>

\* lines 134-182
transcodeBinaryProperties(featureCount, binaryProperties, body) ==
    LET acc == transcodeLoop(featureCount, binaryProperties, body,
                   ForInKeys(binaryProperties),
                   [classProperties |-> EmptyObject,
                    featureTableProperties |-> EmptyObject,
                    bufferViewsU8 |-> <<>>,
                    bufferViewCount |-> 0])
        schemaJson ==
            [classes |-> ("_batchTable" :> [properties |-> acc.classProperties])]
    IN [featureTableJson |-> [class |-> "_batchTable",
                              count |-> featureCount,
                              properties |-> acc.featureTableProperties],
        bufferViewsU8 |-> acc.bufferViewsU8,
        transcodedSchema |-> NewMetadataSchema(schemaJson),
        transcodedClass |-> schemaJson.classes["_batchTable"]]

----------------------------------------------------------------------------
(* initializeHierarchy, lines 251-265.                                     *)

\* initializeHierarchy building a hierarchy from a missing extension
initializeHierarchyDefault(extensions, body, h) ==
    IF ~defined(extensions)
    THEN Undefined
    ELSE NewBatchTableHierarchy(Get(h[extensions[2]], HierarchyExtension), body)

initializeHierarchy(extensions, body, h) ==
    IF ~defined(extensions)
    THEN Undefined
    ELSE LET hier == Get(h[extensions[2]], HierarchyExtension)
         IN IF ~defined(hier)
            THEN Undefined
            ELSE NewBatchTableHierarchy(hier, body)

----------------------------------------------------------------------------
(* The inputs of a call.                                                   *)

LegacyComponentTypes ==
    {"BYTE", "UNSIGNED_BYTE", "SHORT", "UNSIGNED_SHORT", "INT", "UNSIGNED_INT",
     "FLOAT", "DOUBLE"}

PropertyTypes == {"SCALAR", "VEC2", "VEC3", "VEC4"}

\* a binary property descriptor {componentType, type, byteOffset}
Descriptor(componentType, type, byteOffset) ==
    Obj(<< <<"componentType", Str(componentType)>>,
           <<"type", Str(type)>>,
           <<"byteOffset", Num(byteOffset)>> >>, <<>>)

\* a descriptor that declares no componentType
UntypedDescriptor(type, byteOffset) ==
    Obj(<< <<"type", Str(type)>>, <<"byteOffset", Num(byteOffset)>> >>, <<>>)

\* every descriptor over the legacy tags, one unknown tag and a missing tag
AllDescriptors ==
    {Descriptor(c, t, 0) : c \in LegacyComponentTypes \cup {"HALF_FLOAT"},
                           t \in PropertyTypes}
    \cup {UntypedDescriptor(t, 0) : t \in PropertyTypes}

JsonValues == Arr(<<Str("a"), Str("b")>>)

\* the property values the larger tables are built from
PropertyValues ==
    {JsonValues,
     Descriptor("FLOAT", "SCALAR", 0),
     Descriptor("UNSIGNED_BYTE", "VEC3", MaxPropertyOffset)}

\* the object JSON.parse builds from the entries, in their order
RECURSIVE JsonObject(_, _)
JsonObject(entries, proto) ==
    IF entries = <<>> THEN Obj(<<>>, proto)
    ELSE LET last == entries[Len(entries)]
         IN DefineOwn(JsonObject(SubSeq(entries, 1, Len(entries) - 1), proto),
                      last[1], last[2])

\* the property entries of a table: every order of every choice of
\* identifiers, each with every value
PropertyEntries ==
    UNION {{e \in [1..n -> PropertyIds \X PropertyValues] :
               \A i, j \in 1..n : i # j => e[i][1] # e[j][1]} :
           n \in 0..Cardinality(PropertyIds)}

\* what a table may inherit: nothing, or one enumerable key
Prototypes == {<<>>, << <<"inherited", JsonValues>> >>}

LegacyPayload == Obj(<< <<"instancesLength", Num(1)>> >>, <<>>)
ExtensionPayload == Obj(<< <<"instancesLength", Num(2)>> >>, <<>>)

\* the contents of the caller's extensions object
ExtensionsObjects ==
    {EmptyObject,
     Obj(<< <<HierarchyExtension, ExtensionPayload>> >>, <<>>),
     Obj(<< <<"VENDOR_other", Str("x")>> >>, <<>>)}

\* the optional entries HIERARCHY, extensions and extras of a table; the
\* extensions object, when there is one, is heap[1]
ReservedEntries ==
    {h \o x \o e :
        h \in {<<>>, << <<"HIERARCHY", Null>> >>,
               << <<"HIERARCHY", LegacyPayload>> >>},
        x \in {<<>>, << <<"extensions", Ref(1)>> >>},
        e \in {<<>>, << <<"extras", Str("meta")>> >>}}

HasExtensions(entries) == "extensions" \in KeySet(entries)

\* tables of properties only, own and inherited
PropertyTables ==
    {[batchTable |-> JsonObject(e, p), heap |-> <<>>] :
        e \in PropertyEntries, p \in Prototypes}

\* tables of one property with every descriptor
TypeTables ==
    {[batchTable |-> JsonObject(<< <<"height", d>> >>, <<>>), heap |-> <<>>] :
        d \in AllDescriptors}

\* tables with the optional entries and at most one property
ReservedTables ==
    {[batchTable |-> JsonObject(e \o r, <<>>), heap |-> <<x>>] :
        e \in {<<>>, << <<"height", Descriptor("FLOAT", "SCALAR", 0)>> >>},
        r \in {r \in ReservedEntries : HasExtensions(r)},
        x \in ExtensionsObjects}
    \cup
    {[batchTable |-> JsonObject(e \o r, <<>>), heap |-> <<>>] :
        e \in {<<>>, << <<"height", Descriptor("FLOAT", "SCALAR", 0)>> >>},
        r \in {r \in ReservedEntries : ~HasExtensions(r)}}

BatchTables ==
    PropertyTables \cup TypeTables \cup ReservedTables
    \cup {[batchTable |-> Undefined, heap |-> <<>>],
          [batchTable |-> Null, heap |-> <<>>]}

\* options.count: missing, a string, negative, or a feature count
Counts == {Undefined, Str("1"), Num(-1)} \cup {Num(n) : n \in 0..MaxCount}

\* the Uint8Array binaryBody over ArrayBuffer 1
Body(byteOffset) ==
    Obj(<< <<"buffer", <<"ArrayBuffer", 1>>>>,
           <<"byteOffset", Num(byteOffset)>> >>, <<>>)

BinaryBodies == {Undefined, Null, Body(0), Body(MaxBodyOffset)}

----------------------------------------------------------------------------
(* parseBatchTable, lines 26-69, one action for each step of the call.     *)

Steps == <<"partition", "jsonTable", "hierarchy", "transcode", "assemble">>

\* the steps in the order partition, transcode, JSON table, hierarchy
StepAfterTranscodeFirst(step) ==
    CASE step = "check" -> "partition"
      [] step = "partition" -> "transcode"
      [] step = "transcode" -> "jsonTable"
      [] step = "jsonTable" -> "hierarchy"
      [] step = "hierarchy" -> "assemble"
      [] step = "assemble" -> "done"

\* the order of the statements of lines 38-63
StepAfter(step) ==
    CASE step = "check" -> "partition"
      [] step = "partition" -> "jsonTable"
      [] step = "jsonTable" -> "hierarchy"
      [] step = "hierarchy" -> "transcode"
      [] step = "transcode" -> "assemble"
      [] step = "assemble" -> "done"

\* the checks without the one of binaryBody
checksPassNoBody(c, bt, body) ==
    /\ CheckTypeOfNumber(c)
    /\ CheckTypeOfObject(bt)

\* lines 28-30: TRUE when every check passes
checksPass(c, bt, body) ==
    /\ CheckTypeOfNumber(c)
    /\ CheckTypeOfObject(bt)
    /\ CheckTypeOfObject(body)

Init ==
    /\ pc = "check"
    /\ count \in Counts
    /\ \E t \in BatchTables : batchTable = t.batchTable /\ heap = t.heap
    /\ binaryBody \in BinaryBodies
    /\ partitionResults = Undefined
    /\ jsonMetadataTable = Undefined
    /\ hierarchy = Undefined
    /\ binaryResults = Undefined
    /\ result = Undefined
    /\ error = "none"
    /\ warnings = 0
    /\ log = <<>>

Throw(name) ==
    /\ pc' = "threw"
    /\ error' = name

\* lines 27-31
Check ==
    /\ pc = "check"
    /\ IF checksPass(count, batchTable, binaryBody)
       THEN pc' = StepAfter("check") /\ error' = error
       ELSE Throw("InvalidArgument")
    /\ UNCHANGED <<count, batchTable, binaryBody, heap, partitionResults,
                   jsonMetadataTable, hierarchy, binaryResults, result,
                   warnings, log>>

\* line 38; line 81 reads batchTable.HIERARCHY, a TypeError on null or
\* undefined
Partition ==
    /\ pc = "partition"
    /\ IF ~defined(batchTable)
       THEN /\ Throw("TypeError")
            /\ UNCHANGED <<partitionResults, heap, warnings, log>>
       ELSE LET p == partitionProperties(batchTable, heap)
            IN /\ partitionResults' = <<"partitionResults", p.results>>
               /\ heap' = p.heap
               /\ warnings' = warnings + p.warned
               /\ log' = Append(log, "partition")
               /\ pc' = StepAfter("partition")
               /\ error' = error
    /\ UNCHANGED <<count, batchTable, binaryBody, jsonMetadataTable,
                   hierarchy, binaryResults, result>>

\* lines 40-43
BuildJsonTable ==
    /\ pc = "jsonTable"
    /\ jsonMetadataTable' =
           NewJsonMetadataTable(count, partitionResults[2].jsonProperties)
    /\ log' = Append(log, "jsonTable")
    /\ pc' = StepAfter("jsonTable")
    /\ UNCHANGED <<count, batchTable, binaryBody, heap, partitionResults,
                   hierarchy, binaryResults, result, error, warnings>>

\* line 45
InitializeHierarchy ==
    /\ pc = "hierarchy"
    /\ hierarchy' =
           initializeHierarchy(partitionResults[2].extensions, binaryBody, heap)
    /\ log' = Append(log, "hierarchy")
    /\ pc' = StepAfter("hierarchy")
    /\ UNCHANGED <<count, batchTable, binaryBody, heap, partitionResults,
                   jsonMetadataTable, binaryResults, result, error, warnings>>

\* lines 47-51
TranscodeBinary ==
    /\ pc = "transcode"
    /\ IF transcodeThrows(partitionResults[2].binaryProperties, binaryBody)
       THEN /\ Throw("TypeError")
            /\ UNCHANGED <<binaryResults, log>>
       ELSE /\ binaryResults' =
                   <<"binaryResults",
                     transcodeBinaryProperties(count,
                         partitionResults[2].binaryProperties, binaryBody)>>
            /\ log' = Append(log, "transcode")
            /\ pc' = StepAfter("transcode")
            /\ error' = error
    /\ UNCHANGED <<count, batchTable, binaryBody, heap, partitionResults,
                   jsonMetadataTable, hierarchy, result, warnings>>

\* lines 53-68
Assemble ==
    /\ pc = "assemble"
    /\ result' =
           <<"FeatureMetadata",
             [schema |-> binaryResults[2].transcodedSchema,
              featureTables |->
                  ("_batchTable" :>
                      <<"FeatureTable",
                        [featureTable |-> binaryResults[2].featureTableJson,
                         class |-> binaryResults[2].transcodedClass,
                         bufferViews |-> binaryResults[2].bufferViewsU8,
                         jsonMetadataTable |-> jsonMetadataTable,
                         batchTableHierarchy |-> hierarchy]>>),
              extensions |-> partitionResults[2].extensions,
              extras |-> partitionResults[2].extras]>>
    /\ log' = Append(log, "assemble")
    /\ pc' = StepAfter("assemble")
    /\ UNCHANGED <<count, batchTable, binaryBody, heap, partitionResults,
                   jsonMetadataTable, hierarchy, binaryResults, error, warnings>>

Next ==
    \/ Check
    \/ Partition
    \/ BuildJsonTable
    \/ InitializeHierarchy
    \/ TranscodeBinary
    \/ Assemble

Spec == Init /\ [][Next]_vars

----------------------------------------------------------------------------
(* What the properties below read from a state.                            *)

Performed(step) == \E i \in 1..Len(log) : log[i] = step

\* the partitions and the transcoder's mappings, once they exist
BinaryPartition == partitionResults[2].binaryProperties
JsonPartition == partitionResults[2].jsonProperties
ClassProperties == binaryResults[2].transcodedClass.properties
FeatureTableProperties == binaryResults[2].featureTableJson.properties
BufferViews == binaryResults[2].bufferViewsU8

\* the binary properties in the order the transcoder iterates them
IteratedIds == KeysOf(Own(BinaryPartition))

\* the component tag of a target descriptor made for the property
TargetComponent(property, target) ==
    IF Get(property, "type") = Str("SCALAR")
    THEN Get(target, "type")
    ELSE Get(target, "componentType")

ReservedKeys == {"HIERARCHY", "extensions", "extras"}

\* no step of the pipeline has left a trace
NoWorkDone ==
    /\ log = <<>>
    /\ warnings = 0
    /\ partitionResults = Undefined
    /\ jsonMetadataTable = Undefined
    /\ hierarchy = Undefined
    /\ binaryResults = Undefined
    /\ result = Undefined

----------------------------------------------------------------------------
(* C1: transcodeComponentType maps each of the eight legacy tags to its    *)
(* documented target tag, and every other input to undefined, without an   *)
(* error: every transcoded property carries the documented tag.            *)
C1_ComponentTypeTable ==
    Performed("transcode") =>
        /\ error = "none"
        /\ \A i \in 1..Len(IteratedIds) :
             LET property == Get(BinaryPartition, IteratedIds[i])
                 tag == Get(property, "componentType")
                 got == TargetComponent(property,
                                        Get(ClassProperties, IteratedIds[i]))
             IN /\ tag = Str("BYTE") => got = Str("INT8")
                /\ tag = Str("UNSIGNED_BYTE") => got = Str("UINT8")
                /\ tag = Str("SHORT") => got = Str("INT16")
                /\ tag = Str("UNSIGNED_SHORT") => got = Str("UINT16")
                /\ tag = Str("INT") => got = Str("INT32")
                /\ tag = Str("UNSIGNED_INT") => got = Str("UINT32")
                /\ tag = Str("FLOAT") => got = Str("FLOAT32")
                /\ tag = Str("DOUBLE") => got = Str("FLOAT64")
                /\ tag \notin {Str(t) : t \in LegacyComponentTypes}
                       => got = Undefined

\* a returned bundle whose one property had the tag UNSIGNED_INT
C1_Witness ==
    /\ pc = "done"
    /\ IteratedIds = <<"height">>
    /\ Get(Get(BinaryPartition, "height"), "componentType") = Str("UNSIGNED_INT")
    /\ Get(Get(ClassProperties, "height"), "type") = Str("UINT32")

(* C2: for a property of type SCALAR the target descriptor has the single  *)
(* field type, the mapped component type; for VEC2, VEC3, VEC4 it is       *)
(* {type: ARRAY, componentType: mapped, componentCount: 2, 3, 4}.          *)
C2_PropertyTypeDescriptor ==
    Performed("transcode") =>
        \A i \in 1..Len(IteratedIds) :
            LET property == Get(BinaryPartition, IteratedIds[i])
                type == Get(property, "type")
                mapped == transcodeComponentType(Get(property, "componentType"))
                target == Get(ClassProperties, IteratedIds[i])
                Vector(n) ==
                    /\ KeySet(Own(target)) =
                           {"type", "componentType", "componentCount"}
                    /\ Len(Own(target)) = 3
                    /\ Get(target, "type") = Str("ARRAY")
                    /\ Get(target, "componentType") = mapped
                    /\ Get(target, "componentCount") = Num(n)
            IN /\ type = Str("SCALAR") =>
                      /\ KeysOf(Own(target)) = <<"type">>
                      /\ Get(target, "type") = mapped
               /\ type = Str("VEC2") => Vector(2)
               /\ type = Str("VEC3") => Vector(3)
               /\ type = Str("VEC4") => Vector(4)

\* the VEC3 of UNSIGNED_BYTE has become {ARRAY, UINT8, 3}
C2_Witness ==
    /\ Performed("transcode")
    /\ \E i \in 1..Len(IteratedIds) :
         /\ Get(BinaryPartition, IteratedIds[i]) =
                Descriptor("UNSIGNED_BYTE", "VEC3", MaxPropertyOffset)
         /\ Get(ClassProperties, IteratedIds[i]) =
                Obj(<< <<"type", Str("ARRAY")>>,
                       <<"componentType", Str("UINT8")>>,
                       <<"componentCount", Num(3)>> >>, <<>>)

(* C3: the view of every binary property is requested over                *)
(* binaryBody.buffer itself, from byte binaryBody.byteOffset +             *)
(* property.byteOffset, for featureCount elements, whatever its position.  *)
C3_ViewRange ==
    Performed("transcode") =>
        \A i \in 1..Len(IteratedIds) :
            LET property == Get(BinaryPartition, IteratedIds[i])
                view == BufferViews[i - 1]
            IN /\ view[2] = Get(binaryBody, "buffer")
               /\ view[3] = Num(Get(binaryBody, "byteOffset")[2]
                                + Get(property, "byteOffset")[2])
               /\ view[4] = count

\* the second of two properties, at a nonzero offset in a body at a nonzero
\* offset
C3_Witness ==
    /\ Performed("transcode")
    /\ Len(IteratedIds) = 2
    /\ binaryBody = Body(MaxBodyOffset)
    /\ count = Num(MaxCount)
    /\ Get(Get(BinaryPartition, IteratedIds[2]), "byteOffset")
           = Num(MaxPropertyOffset)
    /\ BufferViews[1] = <<"view", <<"ArrayBuffer", 1>>,
                          Num(MaxBodyOffset + MaxPropertyOffset), Num(MaxCount)>>

(* C4: the k-th iterated binary property gets slot k, counting from 0; the *)
(* slots are the keys 0..n-1 of the buffer views; the class schema and the *)
(* feature table have the same property identifiers.                       *)
C4_SequentialSlots ==
    Performed("transcode") =>
        LET n == Len(IteratedIds)
        IN /\ \A k \in 0..(n - 1) :
                 Get(FeatureTableProperties, IteratedIds[k + 1]) =
                     Obj(<< <<"bufferView", Num(k)>> >>, <<>>)
           /\ \A j, k \in 0..(n - 1) :
                 j # k => Get(FeatureTableProperties, IteratedIds[j + 1])
                          # Get(FeatureTableProperties, IteratedIds[k + 1])
           /\ DOMAIN BufferViews = 0..(n - 1)
           /\ KeySet(Own(ClassProperties)) = KeySet(Own(FeatureTableProperties))
           /\ KeySet(Own(FeatureTableProperties)) =
                  {IteratedIds[k] : k \in 1..n}

\* two binary properties, with the slots 0 and 1
C4_Witness ==
    /\ Performed("transcode")
    /\ Len(IteratedIds) = 2
    /\ Get(Get(FeatureTableProperties, IteratedIds[2]), "bufferView") = Num(1)
    /\ DOMAIN BufferViews = {0, 1}

(* C5: every own identifier of the batch table other than HIERARCHY,       *)
(* extensions and extras is in exactly one partition, jsonProperties when  *)
(* its value is an array and binaryProperties otherwise; reserved and      *)
(* inherited identifiers are in neither; the partitions share nothing.     *)
C5_ExactlyOnePartition ==
    Performed("partition") =>
        LET json == KeySet(Own(JsonPartition))
            binary == KeySet(Own(BinaryPartition))
        IN /\ \A id \in KeySet(Own(batchTable)) \ ReservedKeys :
                 IF IsArray(Get(batchTable, id))
                 THEN id \in json /\ id \notin binary
                 ELSE id \in binary /\ id \notin json
           /\ \A id \in ReservedKeys \cup
                        (KeySet(Proto(batchTable)) \ KeySet(Own(batchTable))) :
                 id \notin json /\ id \notin binary
           /\ json \cap binary = {}

(* C6: a defined legacy HIERARCHY without an extensions field yields an    *)
(* extensions mapping with the one entry 3DTILES_batch_table_hierarchy,    *)
(* the legacy value, and one warning; without a defined legacy field there *)
(* is no warning and extensions is the one given.                          *)
C6_LegacyHierarchyFolded ==
    Performed("partition") =>
        LET legacy == Get(batchTable, "HIERARCHY")
            given == Get(batchTable, "extensions")
            extensions == partitionResults[2].extensions
        IN /\ (defined(legacy) /\ given = Undefined) =>
                  /\ Tag(extensions) = "ref"
                  /\ Own(heap[extensions[2]]) =
                         << <<"3DTILES_batch_table_hierarchy", legacy>> >>
                  /\ warnings = 1
           /\ ~defined(legacy) =>
                  /\ warnings = 0
                  /\ extensions = given

\* a table with the legacy field and no extensions, partitioned
C6_Witness ==
    /\ Performed("partition")
    /\ Get(batchTable, "HIERARCHY") = LegacyPayload
    /\ ~hasOwnProperty(batchTable, "extensions")
    /\ warnings = 1
    /\ heap = << Obj(<< <<"3DTILES_batch_table_hierarchy", LegacyPayload>> >>,
                     <<>>) >>

(* C7: without a legacy HIERARCHY field and without an entry               *)
(* 3DTILES_batch_table_hierarchy in extensions the hierarchy is undefined, *)
(* in the bundle too; a hierarchy is constructed exactly when the          *)
(* partitioned extensions has a defined entry under that key.              *)
C7_HierarchyPresence ==
    Performed("hierarchy") =>
        LET legacy == Get(batchTable, "HIERARCHY")
            given == Get(batchTable, "extensions")
            extensions == partitionResults[2].extensions
            entry == IF defined(extensions)
                     THEN Get(heap[extensions[2]], "3DTILES_batch_table_hierarchy")
                     ELSE Undefined
        IN /\ (/\ ~defined(legacy)
               /\ \/ ~defined(given)
                  \/ ~hasOwnProperty(heap[given[2]],
                                     "3DTILES_batch_table_hierarchy"))
                  => hierarchy = Undefined
           /\ (hierarchy # Undefined) <=> defined(entry)
           /\ defined(entry) => hierarchy = NewBatchTableHierarchy(entry, binaryBody)
           /\ pc = "done" => result[2].featureTables["_batchTable"][2]
                                 .batchTableHierarchy = hierarchy

\* a bundle returned for a table with an extensions object that has no
\* hierarchy entry: the hierarchy is undefined
C7_Witness ==
    /\ pc = "done"
    /\ ~hasOwnProperty(batchTable, "HIERARCHY")
    /\ hasOwnProperty(batchTable, "extensions")
    /\ result[2].featureTables["_batchTable"][2].batchTableHierarchy = Undefined

C9_InputsUnchanged ==
    [][/\ batchTable' = batchTable
       /\ binaryBody' = binaryBody
       /\ \A r \in 1..Len(heap) : heap'[r] = heap[r]]_vars

(* C10, as stated: a run that passes the checks performs partition,        *)
(* transcode, JSON table, hierarchy, assemble, in this order, once each.   *)
C10_SpecOrder ==
    pc = "done" =>
        log = <<"partition", "transcode", "jsonTable", "hierarchy", "assemble">>

(* C10, amended: the steps are performed in the order partition, JSON      *)
(* table, hierarchy, transcode, assemble, none twice and none out of       *)
(* order, and a run that returns a bundle has performed all five.          *)
C10_CodeOrder ==
    LET order ==
            <<"partition", "jsonTable", "hierarchy", "transcode", "assemble">>
    IN /\ Len(log) <= 5
       /\ log = SubSeq(order, 1, Len(log))
       /\ pc = "done" => log = order
       /\ result # Undefined <=> pc = "done"

\* a returned bundle, all five steps performed
C10_Witness ==
    /\ pc = "done"
    /\ result # Undefined
    /\ Len(log) = 5

====
